---- MODULE Spec2Model ----
(***************************************************************************)
(* The Todo / Post CRUD backend (Express handlers over Mongoose models).   *)
(* The repository holds six snapshots of the same application; the model   *)
(* runs one of them, chosen at start-up and fixed afterwards:              *)
(*   "app"  src/app.js                                                     *)
(*   "p1"   src/unnamed/part_001                                           *)
(*   "p2"   src/unnamed/part_002                                           *)
(*   "api"  src/unnamed/part_000, lines   1-276 (api/index.js)             *)
(*   "b"    src/unnamed/part_000, lines 278-531                            *)
(*   "c"    src/unnamed/part_000, lines 533-830                            *)
(* A step of the model is one HTTP request handled from arrival to         *)
(* response, the store call it awaits included; the step after it (Reply)  *)
(* hands the response to the client and leaves the server idle.  Where      *)
(* requests overlap, a request first arrives (Arrive: it waits in          *)
(* `inflight` for the store to take its command) and its handler step is   *)
(* the moment the store executes the command and the handler resumes.      *)
(***************************************************************************)
EXTENDS Integers, Sequences, FiniteSets, Bags

\* ------------------------------------------------------------------ bounds
\* Todos that can be created in one run (ObjectIds handed out).
MaxTodos == 2
\* Posts that can be created in one run.
MaxPosts == 1
\* Last value of the millisecond clock (Date.now()); it starts at 0.
MaxClock == 1
\* Files the media host accepts in one run.
MaxUploads == 2
\* Requests that can wait on the store at the same time.
MaxInflight == 2
\* Records of each kind created in a run that uses every route at once.
MaxEach == 1

VARIABLES
  snapshot,   \* which snapshot of the application is running
  todos,      \* the Todo collection: a set of documents
  posts,      \* the Post collection: a set of documents
  todoSeq,    \* ObjectIds handed out to Todo documents so far
  postSeq,    \* ObjectIds handed out to Post documents so far
  now,        \* the clock the timestamps are read from
  mediaCalls, \* upload_stream calls made to the media host so far
  inflight,   \* the bag of requests that arrived and wait for the store
  req,        \* the request being answered (NoRequest when idle)
  resp        \* the response written to it (NoResponse when idle)

vars == <<snapshot, todos, posts, todoSeq, postSeq, now, mediaCalls, inflight, req, resp>>

Snapshots == {"app", "p1", "p2", "api", "b", "c"}

\* ------------------------------------------------------------------ routing
\* The routes each snapshot registers with app.<method>(path, ...).
Routes(s) ==
  CASE s = "app" -> {"POST /todos", "GET /todos", "GET /todos/:id", "PUT /todos/:id",
                     "DELETE /todos/:id", "GET /posts", "POST /posts", "GET /posts/:id",
                     "PUT /posts/:id", "DELETE /posts/:id"}
    [] s = "p1"  -> {"POST /todos", "GET /todos", "GET /todos/:id", "PUT /todos/:id",
                     "DELETE /todos/:id"}
    [] s = "p2"  -> {"POST /upload", "POST /todos", "GET /todos", "GET /posts",
                     "POST /posts", "GET /posts/:id", "PUT /posts/:id", "DELETE /posts/:id"}
    [] s = "api" -> {"POST /upload", "POST /todos", "GET /todos", "PUT /todos/:id",
                     "DELETE /todos/:id", "GET /posts", "POST /posts", "GET /posts/:id",
                     "PUT /posts/:id", "DELETE /posts/:id"}
    [] OTHER     -> {"POST /upload", "POST /todos", "GET /todos", "GET /todos/:id",
                     "PUT /todos/:id", "DELETE /todos/:id", "GET /posts", "POST /posts",
                     "GET /posts/:id", "PUT /posts/:id", "DELETE /posts/:id"}

HasRoute(r) == r \in Routes(snapshot)

\* ------------------------------------------------------------------ values
\* A JSON body is a record holding the keys the client sent; a key that is
\* not in its domain destructures to undefined.
Has(body, k) == k \in DOMAIN body

\* A check that tests only for a missing key (title === undefined).
FalsyUndefinedOnly(body, k) == ~Has(body, k)

\* JavaScript's !x for a destructured string field: undefined and "" are falsy.
Falsy(body, k) == ~Has(body, k) \/ body[k] = ""

\* The body restricted to the keys in D.
Pick(body, D) == [k \in (DOMAIN body) \cap D |-> body[k]]

\* Every way to send some of the keys of a full body.
Partial(full) == { [k \in D |-> full[k]] : D \in SUBSET (DOMAIN full) }

TitleValues == {"", "a"}
TodoBodies == UNION { Partial(f) : f \in [title : TitleValues, done : BOOLEAN] }

\* Post bodies: every subset of the keys of a complete, valid post, the two
\* bodies whose title is missing or empty, and bodies whose media holds an
\* entry of a kind the schema's enum does not list.
MediaKinds == {"image", "video", "audio"}
MediaOk == << [type |-> "image", url |-> "u"] >>
MediaBad == << [type |-> "pdf", url |-> "u"] >>
FullPost == [title |-> "a", content |-> "c", tags |-> << "t" >>, coverImage |-> "u",
             media |-> MediaOk]
PostBodies ==
  Partial(FullPost)
    \cup { [title |-> ""], [title |-> "a", media |-> MediaBad], [media |-> MediaBad] }

\* The x-admin-key header: not sent, sent with another value, or sent with
\* the configured key.
ADMIN_KEY == "admin-key"
NoHeader == "(no header)"
Keys == {NoHeader, "wrong", ADMIN_KEY}

\* req.params.id: an ObjectId string that is in use, one that is not, or
\* a string Mongoose cannot cast to an ObjectId.
MalformedId == 0
WellFormed(id) == id >= 1
TodoReqIds == {MalformedId} \cup (1 .. MaxTodos)
PostReqIds == {MalformedId} \cup (1 .. MaxPosts)

Ids(coll) == { d.id : d \in coll }
Doc(coll, id) == CHOOSE d \in coll : d.id = id

\* ------------------------------------------------------------------ store
\* An id generator that hands out the lowest id not in use at the moment.
NewIdLowestFree(seq, coll) ==
  CHOOSE i \in 1 .. seq + 1 :
    /\ i \notin Ids(coll)
    /\ \A j \in 1 .. seq + 1 : j \notin Ids(coll) => i <= j

\* new ObjectId(): never an id handed out before in the collection.
NewId(seq, coll) == seq + 1

\* Schema defaults: a path left undefined takes its default.
TodoDefaults == [done |-> FALSE]

\* new Todo({ title, done }) followed by save(): defaults for the undefined
\* paths, then `timestamps: true` stamps createdAt and updatedAt.
NewTodo(id, body, t) ==
  [id |-> id,
   title |-> body.title,
   done |-> IF Has(body, "done") THEN body.done ELSE TodoDefaults.done,
   createdAt |-> t,
   updatedAt |-> t]

\* Validation at save(): `required: true` on a String path rejects "".
ValidTodo(doc) == doc.title # ""

PostDefaults == [content |-> "", tags |-> << >>, coverImage |-> "", media |-> << >>]

\* A path of the document built from the body: the value sent, or the
\* schema default when the key destructured to undefined.
Field(body, k) == IF Has(body, k) THEN body[k] ELSE PostDefaults[k]

\* Post.create({ title, content, tags, coverImage, media }).
NewPost(id, body, t) ==
  [id |-> id,
   title |-> body.title,
   content |-> Field(body, "content"),
   tags |-> Field(body, "tags"),
   coverImage |-> Field(body, "coverImage"),
   media |-> Field(body, "media"),
   createdAt |-> t,
   updatedAt |-> t]

\* A schema whose media type has no enum.
ValidPostNoEnum(doc) == doc.title # ""

\* Validation at create(): title is required, and every media entry's type
\* is one of the enum's values.
ValidPost(doc) ==
  /\ doc.title # ""
  /\ \A i \in DOMAIN doc.media : doc.media[i].type \in MediaKinds

\* An update that passes the whole request body on (findByIdAndUpdate(id, req.body)).
SetFieldsWholeBody(body, keys) == body

\* An update that writes every listed key, an undefined one as an empty value.
Cleared == [title |-> "", done |-> FALSE, content |-> "", tags |-> << >>,
            coverImage |-> "", media |-> << >>]
SetFieldsClobber(body, keys) == [k \in keys |-> IF Has(body, k) THEN body[k] ELSE Cleared[k]]

\* The $set Mongoose sends for findByIdAndUpdate(id, update): the keys of
\* the update whose value is undefined are removed from it.
SetFields(body, keys) == Pick(body, keys)

\* The document after the $set, with updatedAt refreshed by `timestamps`.
Merge(d, set, t) ==
  [k \in DOMAIN d |->
     IF k \in DOMAIN set THEN set[k]
     ELSE IF k = "updatedAt" THEN t
     ELSE d[k]]

\* The same query without a sort: every document once, in any order.
SortedListsUnsorted(coll) ==
  { s \in [1 .. Cardinality(coll) -> coll] : \A i, j \in DOMAIN s : i # j => s[i] # s[j] }

\* The same query sorted oldest first (sort({ createdAt: 1 })).
SortedListsAscending(coll) ==
  { s \in [1 .. Cardinality(coll) -> coll] :
      /\ \A i, j \in DOMAIN s : i # j => s[i] # s[j]
      /\ \A i, j \in DOMAIN s : i < j => s[i].createdAt <= s[j].createdAt }

\* Todo.find().sort({ createdAt: -1 }): every document once, newest first;
\* the order among equal createdAt values is whatever the store returns.
SortedLists(coll) ==
  { s \in [1 .. Cardinality(coll) -> coll] :
      /\ \A i, j \in DOMAIN s : i # j => s[i] # s[j]
      /\ \A i, j \in DOMAIN s : i < j => s[i].createdAt >= s[j].createdAt }

\* ------------------------------------------------------------------ responses
NoRequest == [route |-> "none"]
NoResponse == [status |-> 0]
Idle == req = NoRequest
Json(status, body) == [status |-> status, body |-> body]
Message(status, m) == [status |-> status, body |-> [message |-> m]]
ServerError == Message(500, "server error")

\* A PUT /todos/:id that passes title and done in every snapshot.
TodoUpdateKeysBoth(s) == {"title", "done"}

\* The keys PUT /todos/:id passes to findByIdAndUpdate.
TodoUpdateKeys(s) == IF s = "api" THEN {"done"} ELSE {"title", "done"}

\* ------------------------------------------------------------------ Todo handlers
\* POST /todos. `fault` is a driver error raised by the store call; `dt` is
\* the time Date.now() has advanced since the last write (0: the same
\* millisecond).
PostTodos(body, fault, dt) ==
  /\ Idle
  /\ HasRoute("POST /todos")
  /\ req' = [route |-> "POST /todos", body |-> body, fault |-> fault]
  /\ IF Falsy(body, "title")
       THEN /\ resp' = Message(400, "title required")
            /\ UNCHANGED <<todos, todoSeq, now>>
       ELSE IF fault
         THEN /\ resp' = ServerError
              /\ UNCHANGED <<todos, todoSeq, now>>
         ELSE /\ todoSeq < MaxTodos
              /\ now + dt <= MaxClock
              /\ LET doc == NewTodo(NewId(todoSeq, todos), body, now + dt)
                 IN IF ValidTodo(doc)
                      THEN /\ todos' = todos \cup {doc}
                           /\ todoSeq' = todoSeq + 1
                           /\ now' = now + dt
                           /\ resp' = Json(201, doc)
                      ELSE /\ resp' = ServerError
                           /\ UNCHANGED <<todos, todoSeq, now>>
  /\ UNCHANGED <<mediaCalls, snapshot, posts, postSeq>>

\* GET /todos.
GetTodos(fault) ==
  /\ Idle
  /\ HasRoute("GET /todos")
  /\ req' = [route |-> "GET /todos", fault |-> fault]
  /\ IF fault
       THEN resp' = ServerError
       ELSE \E s \in SortedLists(todos) : resp' = Json(200, s)
  /\ UNCHANGED <<mediaCalls, snapshot, todos, posts, todoSeq, postSeq, now>>

\* GET /todos/:id.
GetTodo(id, fault) ==
  /\ Idle
  /\ HasRoute("GET /todos/:id")
  /\ req' = [route |-> "GET /todos/:id", id |-> id, fault |-> fault]
  /\ IF fault \/ ~WellFormed(id)
       THEN resp' = ServerError
       ELSE IF id \notin Ids(todos)
         THEN resp' = Message(404, "todo not found")
         ELSE resp' = Json(200, Doc(todos, id))
  /\ UNCHANGED <<mediaCalls, snapshot, todos, posts, todoSeq, postSeq, now>>

\* PUT /todos/:id.
PutTodo(id, body, fault, dt) ==
  /\ Idle
  /\ HasRoute("PUT /todos/:id")
  /\ req' = [route |-> "PUT /todos/:id", id |-> id, body |-> body, fault |-> fault]
  /\ IF fault \/ ~WellFormed(id)
       THEN /\ resp' = ServerError
            /\ UNCHANGED <<todos, now>>
       ELSE IF id \notin Ids(todos)
         THEN /\ resp' = Message(404, "todo not found")
              /\ UNCHANGED <<todos, now>>
         ELSE /\ now + dt <= MaxClock
              /\ now' = now + dt
              /\ LET old == Doc(todos, id)
                     upd == Merge(old, SetFields(body, TodoUpdateKeys(snapshot)), now')
                 IN /\ todos' = (todos \ {old}) \cup {upd}
                    /\ resp' = Json(200, upd)
  /\ UNCHANGED <<mediaCalls, snapshot, posts, todoSeq, postSeq>>

\* A delete that cascades to the Post stored under the same id.
DeleteTodoCascade(id, fault) ==
  /\ Idle
  /\ HasRoute("DELETE /todos/:id")
  /\ req' = [route |-> "DELETE /todos/:id", id |-> id, fault |-> fault]
  /\ IF fault \/ ~WellFormed(id)
       THEN /\ resp' = ServerError
            /\ UNCHANGED <<todos, posts>>
       ELSE IF id \notin Ids(todos)
         THEN /\ resp' = Message(404, "todo not found")
              /\ UNCHANGED <<todos, posts>>
         ELSE /\ todos' = todos \ {Doc(todos, id)}
              /\ posts' = { d \in posts : d.id # id }
              /\ resp' = Message(200, "deleted")
  /\ UNCHANGED <<mediaCalls, snapshot, todoSeq, postSeq, now>>

\* DELETE /todos/:id.
DeleteTodo(id, fault) ==
  /\ Idle
  /\ HasRoute("DELETE /todos/:id")
  /\ req' = [route |-> "DELETE /todos/:id", id |-> id, fault |-> fault]
  /\ IF fault \/ ~WellFormed(id)
       THEN /\ resp' = ServerError
            /\ UNCHANGED todos
       ELSE IF id \notin Ids(todos)
         THEN /\ resp' = Message(404, "todo not found")
              /\ UNCHANGED todos
         ELSE /\ todos' = todos \ {Doc(todos, id)}
              /\ resp' = Message(200, "deleted")
  /\ UNCHANGED <<mediaCalls, snapshot, posts, todoSeq, postSeq, now>>

\* ------------------------------------------------------------------ Post handlers
\* The keys PUT /posts/:id passes to findByIdAndUpdate.
PostUpdateKeys(s) ==
  IF s = "c" THEN {"title", "content", "tags"}
  ELSE {"title", "content", "tags", "coverImage", "media"}

\* What a route does with the x-admin-key header: "check" compares it with
\* ADMIN_KEY, "none" never reads it, and "undeclared" compares it with an
\* ADMIN_KEY the snapshot never declares (a ReferenceError inside the try).
AuthMode(s, route) ==
  CASE route = "POST /posts" ->
         IF s = "app" THEN "none" ELSE IF s = "c" THEN "undeclared" ELSE "check"
    [] route \in {"PUT /posts/:id", "DELETE /posts/:id", "POST /upload"} ->
         IF s \in {"p2", "api"} THEN "check" ELSE "none"
    [] OTHER -> "none"

Unauthorized == Message(401, "unauthorized")
Denied(route, key) == AuthMode(snapshot, route) = "check" /\ key # ADMIN_KEY
Throws(route) == AuthMode(snapshot, route) = "undeclared"

\* GET /posts.
GetPosts(fault) ==
  /\ Idle
  /\ HasRoute("GET /posts")
  /\ req' = [route |-> "GET /posts", fault |-> fault]
  /\ IF fault
       THEN resp' = ServerError
       ELSE \E s \in SortedLists(posts) : resp' = Json(200, s)
  /\ UNCHANGED <<mediaCalls, snapshot, todos, posts, todoSeq, postSeq, now>>

\* POST /posts.
PostPosts(key, body, fault, dt) ==
  /\ Idle
  /\ HasRoute("POST /posts")
  /\ req' = [route |-> "POST /posts", key |-> key, body |-> body, fault |-> fault]
  /\ IF Throws("POST /posts")
       THEN /\ resp' = ServerError
            /\ UNCHANGED <<posts, postSeq, now>>
       ELSE IF Denied("POST /posts", key)
         THEN /\ resp' = Unauthorized
              /\ UNCHANGED <<posts, postSeq, now>>
         ELSE IF Falsy(body, "title")
           THEN /\ resp' = Message(400, "title required")
                /\ UNCHANGED <<posts, postSeq, now>>
           ELSE IF fault
             THEN /\ resp' = ServerError
                  /\ UNCHANGED <<posts, postSeq, now>>
             ELSE /\ postSeq < MaxPosts
                  /\ now + dt <= MaxClock
                  /\ LET doc == NewPost(NewId(postSeq, posts), body, now + dt)
                     IN IF ValidPost(doc)
                          THEN /\ posts' = posts \cup {doc}
                               /\ postSeq' = postSeq + 1
                               /\ now' = now + dt
                               /\ resp' = Json(201, doc)
                          ELSE /\ resp' = ServerError
                               /\ UNCHANGED <<posts, postSeq, now>>
  /\ UNCHANGED <<mediaCalls, snapshot, todos, todoSeq>>

\* GET /posts/:id.
GetPost(id, fault) ==
  /\ Idle
  /\ HasRoute("GET /posts/:id")
  /\ req' = [route |-> "GET /posts/:id", id |-> id, fault |-> fault]
  /\ IF fault \/ ~WellFormed(id)
       THEN resp' = ServerError
       ELSE IF id \notin Ids(posts)
         THEN resp' = Message(404, "post not found")
         ELSE resp' = Json(200, Doc(posts, id))
  /\ UNCHANGED <<mediaCalls, snapshot, todos, posts, todoSeq, postSeq, now>>

\* PUT /posts/:id.
PutPost(id, key, body, fault, dt) ==
  /\ Idle
  /\ HasRoute("PUT /posts/:id")
  /\ req' = [route |-> "PUT /posts/:id", id |-> id, key |-> key, body |-> body,
             fault |-> fault]
  /\ IF Denied("PUT /posts/:id", key)
       THEN /\ resp' = Unauthorized
            /\ UNCHANGED <<posts, now>>
       ELSE IF fault \/ ~WellFormed(id)
         THEN /\ resp' = ServerError
              /\ UNCHANGED <<posts, now>>
         ELSE IF id \notin Ids(posts)
           THEN /\ resp' = Message(404, "post not found")
                /\ UNCHANGED <<posts, now>>
           ELSE /\ now + dt <= MaxClock
                /\ now' = now + dt
                /\ LET old == Doc(posts, id)
                       upd == Merge(old, SetFields(body, PostUpdateKeys(snapshot)), now')
                   IN /\ posts' = (posts \ {old}) \cup {upd}
                      /\ resp' = Json(200, upd)
  /\ UNCHANGED <<mediaCalls, snapshot, todos, todoSeq, postSeq>>

\* DELETE /posts/:id.
DeletePost(id, key, fault) ==
  /\ Idle
  /\ HasRoute("DELETE /posts/:id")
  /\ req' = [route |-> "DELETE /posts/:id", id |-> id, key |-> key, fault |-> fault]
  /\ IF Denied("DELETE /posts/:id", key)
       THEN /\ resp' = Unauthorized
            /\ UNCHANGED posts
       ELSE IF fault \/ ~WellFormed(id)
         THEN /\ resp' = ServerError
              /\ UNCHANGED posts
         ELSE IF id \notin Ids(posts)
           THEN /\ resp' = Message(404, "post not found")
                /\ UNCHANGED posts
           ELSE /\ posts' = posts \ {Doc(posts, id)}
                /\ resp' = Message(200, "deleted")
  /\ UNCHANGED <<mediaCalls, snapshot, todos, todoSeq, postSeq, now>>

\* ------------------------------------------------------------------ upload
\* A retry policy that sends the file a second time after a failure.
UploadAttemptsRetry(fail) == IF fail THEN 2 ELSE 1

\* The upload_stream calls one POST /upload makes: the stream is created
\* and piped once, and the callback answers whatever the host reports.
UploadAttempts(fail) == 1

\* What the callback sends for the host's result.
Uploaded == Json(200, [url |-> "u", public_id |-> "p", resource_type |-> "image"])
UploadFailed == Message(500, "upload failed")

\* POST /upload. `hasFile` says whether multer found the field `file`;
\* `fail` says whether the media host reports an error to the callback.
Upload(key, hasFile, fail) ==
  /\ Idle
  /\ HasRoute("POST /upload")
  /\ req' = [route |-> "POST /upload", key |-> key, file |-> hasFile, fail |-> fail]
  /\ IF Denied("POST /upload", key)
       THEN /\ resp' = Unauthorized
            /\ UNCHANGED mediaCalls
       ELSE IF ~hasFile
         THEN /\ resp' = Message(400, "no file")
              /\ UNCHANGED mediaCalls
         ELSE /\ mediaCalls + UploadAttempts(fail) <= MaxUploads
              /\ mediaCalls' = mediaCalls + UploadAttempts(fail)
              /\ resp' = IF fail THEN UploadFailed ELSE Uploaded
  /\ UNCHANGED <<snapshot, todos, posts, todoSeq, postSeq, now>>

\* ------------------------------------------------------------------ system
Init ==
  /\ snapshot \in Snapshots
  /\ todos = {}
  /\ posts = {}
  /\ todoSeq = 0
  /\ postSeq = 0
  /\ now = 0
  /\ mediaCalls = 0
  /\ inflight = EmptyBag
  /\ req = NoRequest
  /\ resp = NoResponse

\* res.json(...) has written the response; the client takes it and the
\* request is over.
Reply ==
  /\ ~Idle
  /\ req' = NoRequest
  /\ resp' = NoResponse
  /\ UNCHANGED <<mediaCalls, inflight, snapshot, todos, posts, todoSeq, postSeq, now>>

\* The requests a client can send to the Todo routes, one at a time (none
\* waits in `inflight`); the store answers every call (no driver fault).
TodoNext ==
  \/ \E body \in TodoBodies, dt \in 0 .. 1 :
       PostTodos(body, FALSE, dt) /\ UNCHANGED inflight
  \/ GetTodos(FALSE) /\ UNCHANGED inflight
  \/ \E id \in TodoReqIds : GetTodo(id, FALSE) /\ UNCHANGED inflight
  \/ \E id \in TodoReqIds, body \in TodoBodies, dt \in 0 .. 1 :
       PutTodo(id, body, FALSE, dt) /\ UNCHANGED inflight
  \/ \E id \in TodoReqIds : DeleteTodo(id, FALSE) /\ UNCHANGED inflight
  \/ Reply

\* The requests a client can send to the Post routes.
PostNext ==
  \/ GetPosts(FALSE) /\ UNCHANGED inflight
  \/ \E key \in Keys, body \in PostBodies, dt \in 0 .. 1 :
       PostPosts(key, body, FALSE, dt) /\ UNCHANGED inflight
  \/ \E id \in PostReqIds : GetPost(id, FALSE) /\ UNCHANGED inflight
  \/ \E id \in PostReqIds, key \in Keys, body \in PostBodies, dt \in 0 .. 1 :
       PutPost(id, key, body, FALSE, dt) /\ UNCHANGED inflight
  \/ \E id \in PostReqIds, key \in Keys : DeletePost(id, key, FALSE) /\ UNCHANGED inflight
  \/ Reply

Next == TodoNext \/ PostNext

\* Every route of the running snapshot.
Spec == Init /\ [][Next]_vars

\* The Todo routes alone.
SpecTodo == Init /\ [][TodoNext]_vars

\* The Post routes alone.
SpecPost == Init /\ [][PostNext]_vars

\* The Post routes that create, read and delete (no PUT /posts/:id).
PostCreateNext ==
  \/ GetPosts(FALSE) /\ UNCHANGED inflight
  \/ \E key \in Keys, body \in PostBodies, dt \in 0 .. 1 :
       PostPosts(key, body, FALSE, dt) /\ UNCHANGED inflight
  \/ \E id \in PostReqIds : GetPost(id, FALSE) /\ UNCHANGED inflight
  \/ \E id \in PostReqIds, key \in Keys : DeletePost(id, key, FALSE) /\ UNCHANGED inflight
  \/ Reply

SpecPostCreate == Init /\ [][PostCreateNext]_vars

\* The collections live in the database at MONGODB_URI and outlast the
\* process: a snapshot can start on a Post collection that an earlier
\* deployment of the application filled through POST /posts.
InitStored ==
  /\ snapshot \in Snapshots
  /\ todos = {}
  /\ posts \in { {}, {NewPost(1, [title |-> "a"], 0)}, {NewPost(1, FullPost, 0)} }
  /\ todoSeq = 0
  /\ postSeq = Cardinality(posts)
  /\ now = 0
  /\ mediaCalls = 0
  /\ inflight = EmptyBag
  /\ req = NoRequest
  /\ resp = NoResponse

\* The Post routes of a snapshot started on such a database.
SpecPostStored == InitStored /\ [][PostNext]_vars

\* ------------------------------------------------------------------ overlap
\* A request arrives while others wait: its handler runs up to the await of
\* its store call and the request joins the ones the store has yet to serve.
Arrive(r) ==
  /\ Idle
  /\ HasRoute(r.route)
  /\ BagCardinality(inflight) < MaxInflight
  /\ inflight' = inflight (+) SetToBag({r})
  /\ UNCHANGED <<snapshot, todos, posts, todoSeq, postSeq, now, mediaCalls, req, resp>>

\* The store serves the find() of a waiting GET /todos or GET /posts and
\* its handler resumes.
ResumeList(r) ==
  /\ BagIn(r, inflight)
  /\ inflight' = inflight (-) SetToBag({r})
  /\ \/ r.route = "GET /todos" /\ GetTodos(FALSE)
     \/ r.route = "GET /posts" /\ GetPosts(FALSE)

ListRequests == { [route |-> "GET /todos"], [route |-> "GET /posts"] }

\* Listing under change: Todos are created, updated and deleted and Posts
\* are created and deleted, one request at a time, while GET /todos and
\* GET /posts requests arrive, wait and are served in any order.
ListNext ==
  \/ \E dt \in 0 .. 1 : PostTodos([title |-> "a"], FALSE, dt) /\ UNCHANGED inflight
  \/ \E id \in 1 .. MaxTodos, dt \in 0 .. 1 :
       PutTodo(id, [done |-> TRUE], FALSE, dt) /\ UNCHANGED inflight
  \/ \E id \in 1 .. MaxTodos : DeleteTodo(id, FALSE) /\ UNCHANGED inflight
  \/ \E dt \in 0 .. 1 : PostPosts(ADMIN_KEY, [title |-> "a"], FALSE, dt) /\ UNCHANGED inflight
  \/ \E id \in 1 .. MaxPosts : DeletePost(id, ADMIN_KEY, FALSE) /\ UNCHANGED inflight
  \/ \E r \in ListRequests : Arrive(r)
  \/ \E r \in ListRequests : ResumeList(r)
  \/ Reply

SpecList == Init /\ [][ListNext]_vars

\* A store command that replaces the document: the fields the update does
\* not name fall back to empty values (findOneAndReplace).
FindByIdAndReplace(coll, id, set, t) ==
  LET old == Doc(coll, id)
  IN (coll \ {old})
       \cup { [k \in DOMAIN old |->
                 IF k \in DOMAIN set THEN set[k]
                 ELSE IF k = "updatedAt" THEN t
                 ELSE IF k \in {"id", "createdAt"} THEN old[k]
                 ELSE Cleared[k]] }

\* The collection after the store has executed findByIdAndUpdate on a
\* stored id: one findOneAndUpdate command, which reads the document and
\* writes the merged one in a single step of the store.
FindByIdAndUpdate(coll, id, set, t) ==
  LET old == Doc(coll, id)
  IN (coll \ {old}) \cup {Merge(old, set, t)}

\* The collection after the store has executed findByIdAndDelete.
FindByIdAndDelete(coll, id) == { d \in coll : d.id # id }

\* A PUT arrives while others wait. Mongoose builds the command before it
\* is sent: the keys to $set and the updatedAt stamp, read from the clock
\* at this moment (`at`), travel with the command.
ArriveUpdate(r, dt) ==
  /\ Idle
  /\ HasRoute(r.route)
  /\ ~Denied(r.route, r.key)
  /\ BagCardinality(inflight) < MaxInflight
  /\ now + dt <= MaxClock
  /\ now' = now + dt
  /\ inflight' = inflight (+) SetToBag({[r EXCEPT !.at = now']})
  /\ UNCHANGED <<snapshot, todos, posts, todoSeq, postSeq, mediaCalls, req, resp>>

\* A DELETE arrives while others wait.
ArriveDelete(r) ==
  /\ ~Denied(r.route, r.key)
  /\ Arrive(r)

\* The store executes the command of a waiting PUT and its handler resumes
\* with the result: null (404) or the document after the update.
ResumeUpdate(r) ==
  /\ Idle
  /\ BagIn(r, inflight)
  /\ r.route \in {"PUT /todos/:id", "PUT /posts/:id"}
  /\ inflight' = inflight (-) SetToBag({r})
  /\ req' = r
  /\ LET onTodos == r.route = "PUT /todos/:id"
         coll == IF onTodos THEN todos ELSE posts
         keys == IF onTodos THEN TodoUpdateKeys(snapshot) ELSE PostUpdateKeys(snapshot)
         after == FindByIdAndUpdate(coll, r.id, SetFields(r.body, keys), r.at)
     IN IF r.id \notin Ids(coll)
          THEN /\ resp' = Message(404, IF onTodos THEN "todo not found" ELSE "post not found")
               /\ UNCHANGED <<todos, posts>>
          ELSE /\ resp' = Json(200, Doc(after, r.id))
               /\ todos' = IF onTodos THEN after ELSE todos
               /\ posts' = IF onTodos THEN posts ELSE after
  /\ UNCHANGED <<snapshot, todoSeq, postSeq, now, mediaCalls>>

\* The store executes the command of a waiting DELETE and its handler
\* resumes with the result: null (404) or the deleted document.
ResumeDelete(r) ==
  /\ Idle
  /\ BagIn(r, inflight)
  /\ r.route \in {"DELETE /todos/:id", "DELETE /posts/:id"}
  /\ inflight' = inflight (-) SetToBag({r})
  /\ req' = r
  /\ LET onTodos == r.route = "DELETE /todos/:id"
         coll == IF onTodos THEN todos ELSE posts
         after == FindByIdAndDelete(coll, r.id)
     IN /\ resp' = IF r.id \in Ids(coll) THEN Message(200, "deleted")
                   ELSE Message(404, IF onTodos THEN "todo not found" ELSE "post not found")
        /\ todos' = IF onTodos THEN after ELSE todos
        /\ posts' = IF onTodos THEN posts ELSE after
  /\ UNCHANGED <<snapshot, todoSeq, postSeq, now, mediaCalls>>

\* The PUT and DELETE requests a client sends for the record created last
\* in each collection (ids are learnt from the answers to POST).
OverlapUpdates ==
  { [route |-> "PUT /todos/:id", id |-> todoSeq, key |-> NoHeader, body |-> b, at |-> 0] :
      b \in { [done |-> TRUE], [title |-> "b"] } }
    \cup
  { [route |-> "PUT /posts/:id", id |-> postSeq, key |-> ADMIN_KEY, body |-> b, at |-> 0] :
      b \in { [content |-> "c"], [title |-> "b"] } }

OverlapDeletes ==
  { [route |-> "DELETE /todos/:id", id |-> todoSeq, key |-> NoHeader],
    [route |-> "DELETE /posts/:id", id |-> postSeq, key |-> ADMIN_KEY] }

\* Overlapping requests on the records of one collection (the Todos in one
\* run, the Posts in another): records are created one request at a time,
\* PUT and DELETE requests arrive, wait for the store and are executed by
\* it in any order.
OverlapNext ==
  \/ \E dt \in 0 .. 1 :
       /\ todoSeq < MaxEach /\ postSeq = 0
       /\ PostTodos([title |-> "a"], FALSE, dt) /\ UNCHANGED inflight
  \/ \E dt \in 0 .. 1 :
       /\ postSeq < MaxEach /\ todoSeq = 0
       /\ PostPosts(ADMIN_KEY, [title |-> "a"], FALSE, dt) /\ UNCHANGED inflight
  \/ \E r \in OverlapUpdates, dt \in 0 .. 1 : r.id >= 1 /\ ArriveUpdate(r, dt)
  \/ \E r \in OverlapDeletes : r.id >= 1 /\ ArriveDelete(r)
  \/ \E r \in BagToSet(inflight) : ResumeUpdate(r)
  \/ \E r \in BagToSet(inflight) : ResumeDelete(r)
  \/ Reply

SpecOverlap == Init /\ [][OverlapNext]_vars

\* Record identity: Todos and Posts are created, read by id, updated and
\* deleted, at most MaxEach of each kind, while the clock runs. A client
\* can also send the store-assigned fields (id, createdAt, updatedAt) in
\* the body of an update.
Forged == [id |-> 0, createdAt |-> MaxClock + 1, updatedAt |-> 0]
TodoUpdates == { [title |-> "b", done |-> TRUE, id |-> Forged.id,
                  createdAt |-> Forged.createdAt, updatedAt |-> Forged.updatedAt] }
PostUpdates == { [title |-> "b", content |-> "c", id |-> Forged.id,
                  createdAt |-> Forged.createdAt, updatedAt |-> Forged.updatedAt] }

RecordNext ==
  \/ \E dt \in 0 .. 1 :
       todoSeq < MaxEach /\ PostTodos([title |-> "a"], FALSE, dt) /\ UNCHANGED inflight
  \/ \E id \in 1 .. MaxEach : GetTodo(id, FALSE) /\ UNCHANGED inflight
  \/ \E id \in 1 .. MaxEach, body \in TodoUpdates, dt \in 0 .. 1 :
       PutTodo(id, body, FALSE, dt) /\ UNCHANGED inflight
  \/ \E id \in 1 .. MaxEach : DeleteTodo(id, FALSE) /\ UNCHANGED inflight
  \/ \E dt \in 0 .. 1 :
       postSeq < MaxEach /\ PostPosts(ADMIN_KEY, [title |-> "a"], FALSE, dt)
         /\ UNCHANGED inflight
  \/ \E id \in 1 .. MaxEach : GetPost(id, FALSE) /\ UNCHANGED inflight
  \/ \E id \in 1 .. MaxEach, body \in PostUpdates, dt \in 0 .. 1 :
       PutPost(id, ADMIN_KEY, body, FALSE, dt) /\ UNCHANGED inflight
  \/ \E id \in 1 .. MaxEach : DeletePost(id, ADMIN_KEY, FALSE) /\ UNCHANGED inflight
  \/ Reply

SpecRecord == Init /\ [][RecordNext]_vars

\* Every route of the running snapshot, the store calls failing or not and
\* the media host failing or not, over a few bodies per route, at most
\* MaxEach records created per collection and all within one millisecond.
FewTodoBodies == { [title |-> "a"], [title |-> ""], [done |-> TRUE] }
FewPostBodies == { [title |-> "a"], [content |-> "c"], [title |-> "a", media |-> MediaBad] }
FewKeys == {NoHeader, ADMIN_KEY}

FaultyNext ==
  \/ \E body \in FewTodoBodies, fault \in BOOLEAN :
       todoSeq < MaxEach /\ PostTodos(body, fault, 0) /\ UNCHANGED inflight
  \/ \E fault \in BOOLEAN : GetTodos(fault) /\ UNCHANGED inflight
  \/ \E id \in 0 .. MaxEach, fault \in BOOLEAN : GetTodo(id, fault) /\ UNCHANGED inflight
  \/ \E id \in 0 .. MaxEach, body \in FewTodoBodies, fault \in BOOLEAN :
       PutTodo(id, body, fault, 0) /\ UNCHANGED inflight
  \/ \E id \in 0 .. MaxEach, fault \in BOOLEAN : DeleteTodo(id, fault) /\ UNCHANGED inflight
  \/ \E fault \in BOOLEAN : GetPosts(fault) /\ UNCHANGED inflight
  \/ \E key \in FewKeys, body \in FewPostBodies, fault \in BOOLEAN :
       postSeq < MaxEach /\ PostPosts(key, body, fault, 0) /\ UNCHANGED inflight
  \/ \E id \in 0 .. MaxEach, fault \in BOOLEAN : GetPost(id, fault) /\ UNCHANGED inflight
  \/ \E id \in 0 .. MaxEach, key \in FewKeys, body \in FewPostBodies, fault \in BOOLEAN :
       PutPost(id, key, body, fault, 0) /\ UNCHANGED inflight
  \/ \E id \in 0 .. MaxEach, key \in FewKeys, fault \in BOOLEAN :
       DeletePost(id, key, fault) /\ UNCHANGED inflight
  \/ \E key \in Keys, hasFile \in BOOLEAN, fail \in BOOLEAN :
       Upload(key, hasFile, fail) /\ UNCHANGED inflight
  \/ Reply

SpecFaulty == Init /\ [][FaultyNext]_vars

\* ------------------------------------------------------------------ claims
\* The step in which the handler of `route` answers a request.
Handles(route) == Idle /\ req'.route = route

\* The body carries no title, or an empty one.
TitleMissingOrEmpty(body) == "title" \notin DOMAIN body \/ body.title = ""

\* The record of collection `coll` stored under `id`.
Stored(coll, id) == CHOOSE d \in coll : d.id = id
StoredIds(coll) == { d.id : d \in coll }

\* C1: POST /todos whose body has a missing or empty title is answered with
\* 400, and the Todo collection after the request is the collection before it.
C1_MissingTitleRejected ==
  [][ (Handles("POST /todos") /\ TitleMissingOrEmpty(req'.body))
        => (resp'.status = 400 /\ todos' = todos /\ todoSeq' = todoSeq) ]_vars

\* C1 witness: a POST /todos without a title was answered 400 while the
\* collection held a record.
C1_Witness ==
  /\ req.route = "POST /todos"
  /\ TitleMissingOrEmpty(req.body)
  /\ resp.status = 400
  /\ todos # {}

\* The Todo created last: ObjectIds are handed out in order, so it is the
\* stored record with the newest id.
LastCreated(coll, seq) == Stored(coll, seq)

\* The position of record d in the sequence s.
IndexOf(s, d) == CHOOSE i \in DOMAIN s : s[i] = d

C2_Created ==
  (Handles("POST /todos") /\ ~TitleMissingOrEmpty(req'.body) /\ "done" \notin DOMAIN req'.body)
     => /\ resp'.status = 201
        /\ resp'.body.done = FALSE
        /\ resp'.body.title = req'.body.title
        /\ resp'.body \in todos'
        /\ resp'.body.id \notin StoredIds(todos)

\* C2 as stated: POST /todos with a non-empty title and no done is answered
\* 201 with done false, and the GET /todos that follows has the created
\* record as its first element.
C2_Original ==
  [][ /\ C2_Created
      /\ (Handles("GET /todos") /\ todoSeq \in StoredIds(todos))
           => (resp'.status = 200 /\ resp'.body[1] = LastCreated(todos, todoSeq)) ]_vars

\* C2 amended: POST /todos with a non-empty title and no done is answered
\* 201 with done false and the record is stored; the GET /todos that follows
\* lists every stored record once, the created one ahead of every record
\* with an earlier createdAt, and first when no other record has its createdAt.
C2_NewestFirstUpToTies ==
  [][ /\ C2_Created
      /\ (Handles("GET /todos") /\ todoSeq \in StoredIds(todos))
           => LET new == LastCreated(todos, todoSeq)
                  list == resp'.body
              IN /\ resp'.status = 200
                 /\ { list[i] : i \in DOMAIN list } = todos
                 /\ Len(list) = Cardinality(todos)
                 /\ \A i \in DOMAIN list :
                      list[i].createdAt < new.createdAt => IndexOf(list, new) < i
                 /\ (\A d \in todos \ {new} : d.createdAt # new.createdAt)
                      => list[1] = new ]_vars

\* C2 witness: a GET /todos answered with two records, the one created
\* last (strictly later than the other) first.
C2_Witness ==
  /\ req.route = "GET /todos"
  /\ resp.status = 200
  /\ Len(resp.body) = 2
  /\ resp.body[1].id = todoSeq
  /\ resp.body[1].done = FALSE
  /\ resp.body[2].createdAt < resp.body[1].createdAt

\* C3: PUT /todos/:id on an existing Todo is answered 200 with the record
\* as stored after the update; a field absent from the body keeps its value,
\* the id and createdAt are kept, no other record changes, and a body
\* holding only done yields that done with the title unchanged.
C3_PartialUpdate ==
  [][ (Handles("PUT /todos/:id") /\ req'.id \in StoredIds(todos))
        => LET old == Stored(todos, req'.id)
               body == req'.body
               new == resp'.body
           IN /\ resp'.status = 200
              /\ new \in todos'
              /\ todos' \ {new} = todos \ {old}
              /\ new.id = old.id
              /\ new.createdAt = old.createdAt
              /\ ("title" \notin DOMAIN body => new.title = old.title)
              /\ ("done" \notin DOMAIN body => new.done = old.done)
              /\ ("done" \in DOMAIN body => new.done = body.done) ]_vars

\* C3 witness: PUT with the body {done: true} answered 200 with done true
\* and the title the record was created with.
C3_Witness ==
  /\ req.route = "PUT /todos/:id"
  /\ req.body = [done |-> TRUE]
  /\ resp.status = 200
  /\ resp.body.done = TRUE
  /\ resp.body.title = "a"
  /\ resp.body.updatedAt > resp.body.createdAt

\* C4: PUT /todos/:id with an id that resolves to no Todo is answered 404
\* and leaves the collection as it was, whatever the body.
C4_NoUpsert ==
  [][ (Handles("PUT /todos/:id") /\ req'.id \notin StoredIds(todos))
        => (resp'.status = 404 /\ todos' = todos) ]_vars

\* The ids of Todos that were created and are stored no more.
DeletedTodoIds == (1 .. todoSeq) \ StoredIds(todos)

\* C5: DELETE /todos/:id on an existing Todo is answered 200 and removes
\* exactly that record; from then on GET, PUT and DELETE on that id are
\* answered 404 and the id never resolves to a record again.
C5_DeleteIsFinal ==
  [][ /\ (Handles("DELETE /todos/:id") /\ req'.id \in StoredIds(todos))
           => (resp'.status = 200 /\ todos' = todos \ {Stored(todos, req'.id)})
      /\ ((Handles("GET /todos/:id") \/ Handles("PUT /todos/:id")
             \/ Handles("DELETE /todos/:id")) /\ req'.id \in DeletedTodoIds)
           => (resp'.status = 404 /\ todos' = todos)
      /\ \A id \in DeletedTodoIds : id \notin StoredIds(todos') ]_vars

\* C5 witness: a second DELETE of a deleted Todo answered 404 while
\* another Todo is stored.
C5_Witness ==
  /\ req.route = "DELETE /todos/:id"
  /\ req.id \in DeletedTodoIds
  /\ resp.status = 404
  /\ todos # {}

\* C6: POST /posts whose x-admin-key header is absent or is not the
\* configured secret is answered 401 for every body, and no Post is stored.
C6_CreateNeedsSecret ==
  [][ (Handles("POST /posts") /\ req'.key # ADMIN_KEY)
        => (resp'.status = 401 /\ posts' = posts /\ postSeq' = postSeq) ]_vars

\* C7: PUT /posts/:id and DELETE /posts/:id whose x-admin-key header is
\* absent or wrong are answered 401 whether or not the id resolves, and the
\* Post collection is left as it was.
C7_MutationNeedsSecret ==
  [][ ((Handles("PUT /posts/:id") \/ Handles("DELETE /posts/:id")) /\ req'.key # ADMIN_KEY)
        => (resp'.status = 401 /\ posts' = posts) ]_vars

\* C8: POST /posts with the configured secret and a body holding only a
\* non-empty title is answered 201 with content "" and tags [], the record
\* returned is the record stored, and GET /posts/:id on a stored id is
\* answered 200 with the stored record.
C8_CreateDefaultsRoundTrip ==
  [][ /\ (Handles("POST /posts") /\ req'.key = ADMIN_KEY /\ DOMAIN req'.body = {"title"}
            /\ ~TitleMissingOrEmpty(req'.body))
           => /\ resp'.status = 201
              /\ resp'.body.title = req'.body.title
              /\ resp'.body.content = ""
              /\ resp'.body.tags = << >>
              /\ resp'.body \in posts'
      /\ (Handles("GET /posts/:id") /\ req'.id \in StoredIds(posts))
           => (resp'.status = 200 /\ resp'.body = Stored(posts, req'.id)) ]_vars

\* The media sequence holds an entry whose type is none of image, video, audio.
HasInvalidMedia(body) ==
  /\ "media" \in DOMAIN body
  /\ \E i \in DOMAIN body.media : body.media[i].type \notin {"image", "video", "audio"}

C10_MalformedIdIsNotFound ==
  [][ ( /\ \/ Handles("GET /todos/:id") \/ Handles("PUT /todos/:id")
           \/ Handles("DELETE /todos/:id") \/ Handles("GET /posts/:id")
           \/ ((Handles("PUT /posts/:id") \/ Handles("DELETE /posts/:id"))
                  /\ req'.key = ADMIN_KEY)
        /\ req'.id = MalformedId )
        => (resp'.status = 404 /\ todos' = todos /\ posts' = posts) ]_vars

\* Every way to list the records of `coll` once each, none before a record
\* created later than it.
NewestFirstOrders(coll) ==
  { s \in [1 .. Cardinality(coll) -> coll] :
      /\ { s[i] : i \in DOMAIN s } = coll
      /\ \A i, j \in DOMAIN s : i < j => s[i].createdAt >= s[j].createdAt }

\* The sequence every read of `coll` returns, if reads of one collection
\* state all return the same sequence.
ListOf(coll) == CHOOSE s \in NewestFirstOrders(coll) : TRUE

\* No two records of `coll` were created in the same millisecond.
DistinctCreation(coll) == \A d, e \in coll : d # e => d.createdAt # e.createdAt

\* The collection a list route reads.
Listed(route) == IF route = "GET /todos" THEN todos ELSE posts

C12_PostPartialMerge ==
  [][ (Handles("PUT /posts/:id") /\ req'.key = ADMIN_KEY /\ req'.id \in StoredIds(posts))
        => LET old == Stored(posts, req'.id)
               body == req'.body
               new == resp'.body
           IN /\ resp'.status = 200
              /\ new \in posts'
              /\ \A k \in {"title", "content", "tags", "coverImage", "media"} :
                   new[k] = IF k \in DOMAIN body THEN body[k] ELSE old[k] ]_vars

\* C13: POST /upload whose x-admin-key header is absent or is not the
\* configured secret is answered 401, with a file attached or without one,
\* and nothing is sent to the media host.
C13_UploadNeedsSecret ==
  [][ (Handles("POST /upload") /\ req'.key # ADMIN_KEY)
        => (resp'.status = 401 /\ mediaCalls' = mediaCalls) ]_vars

\* The step in which some handler answers a request.
HandlesAny == Idle /\ req'.route # "none"

\* The request carries a marker `k` (a store fault, a media-host failure)
\* and the marker is set.
Marked(r, k) == k \in DOMAIN r /\ r[k]

\* Nothing that is stored changes in the step.
StoreUntouched ==
  /\ todos' = todos
  /\ posts' = posts
  /\ todoSeq' = todoSeq
  /\ postSeq' = postSeq

\* C14: every request is answered, once, and the server is then ready for
\* the next one. A request whose store call fails is answered 500 (when it
\* is not turned away with 400 or 401 before the call), a POST /upload
\* whose media host fails is answered 500 after a single call to the host,
\* and every 500 carries a JSON message and leaves both collections as
\* they were.
C14_FailuresAreIsolated ==
  [][ /\ HandlesAny
           => /\ resp'.status \in {200, 201, 400, 401, 404, 500}
              /\ Marked(req', "fault") => resp'.status \in {400, 401, 500}
              /\ Marked(req', "fail") => resp'.status \in {400, 401, 500}
              /\ (Marked(req', "fail") /\ resp'.status = 500)
                   => mediaCalls' = mediaCalls + 1
              /\ resp'.status = 500
                   => ("message" \in DOMAIN resp'.body /\ StoreUntouched)
      /\ ~Idle
           => (req' = NoRequest /\ resp' = NoResponse /\ StoreUntouched
                 /\ mediaCalls' = mediaCalls) ]_vars

\* C14 witness: with an upload made, a DELETE /todos/:id on a stored Todo
\* whose store call failed was answered 500 and the Todo is still stored.
C14_Witness ==
  /\ req.route = "DELETE /todos/:id"
  /\ req.fault
  /\ resp.status = 500
  /\ req.id \in StoredIds(todos)
  /\ mediaCalls > 0

TodoRoutes == {"POST /todos", "GET /todos", "GET /todos/:id", "PUT /todos/:id",
               "DELETE /todos/:id"}
PostAndUploadRoutes == {"POST /posts", "GET /posts", "GET /posts/:id", "PUT /posts/:id",
                        "DELETE /posts/:id", "POST /upload"}

\* C15: a request to a /todos route, whatever its outcome, leaves the Post
\* collection as it was, and a request to a /posts route or to POST /upload
\* leaves the Todo collection as it was.
C15_CollectionsIndependent ==
  [][ /\ (HandlesAny /\ req'.route \in TodoRoutes)
           => (posts' = posts /\ postSeq' = postSeq)
      /\ (HandlesAny /\ req'.route \in PostAndUploadRoutes)
           => (todos' = todos /\ todoSeq' = todoSeq) ]_vars

\* C15 witness: a DELETE /todos/:id was answered 200 and a Post stored
\* under the same id value is still there.
C15_Witness ==
  /\ req.route = "DELETE /todos/:id"
  /\ resp.status = 200
  /\ req.id \notin StoredIds(todos)
  /\ req.id \in StoredIds(posts)

\* No two records of `coll` have the same id, and none was updated before
\* it was created.
WellKept(coll) ==
  /\ \A d, e \in coll : d.id = e.id => d = e
  /\ \A d \in coll : d.updatedAt >= d.createdAt

\* From `coll` to `after`, every record that stays is found under the id
\* it had, with the createdAt it had, and a record that appears has an id
\* never handed out before (`seq` ids were handed out so far).
IdsKept(coll, after, seq) ==
  /\ \A d \in coll :
        d.id \in StoredIds(after) => Stored(after, d.id).createdAt = d.createdAt
  /\ StoredIds(after) \ StoredIds(coll) \subseteq {seq + 1}
  /\ Cardinality(after) <= Cardinality(coll) + 1

\* The answer to a request on /todos/:id or /posts/:id that found its
\* record carries the id asked for and, for an update, is the record now
\* stored under that id, with the createdAt the record had.
AnswersForId(route, coll, after) ==
  (Handles(route) /\ resp'.status = 200 /\ "id" \in DOMAIN resp'.body)
    => /\ resp'.body.id = req'.id
       /\ resp'.body = Stored(after, req'.id)
       /\ req'.id \in StoredIds(coll)
       /\ resp'.body.createdAt = Stored(coll, req'.id).createdAt

UpdateIsAtomic(lead, coll, after) ==
  IF req'.id \notin StoredIds(coll)
    THEN resp'.status = 404 /\ after = coll
    ELSE LET old == Stored(coll, req'.id)
             new == resp'.body
         IN /\ resp'.status = 200
            /\ new \in after
            /\ after \ {new} = coll \ {old}
            /\ new.updatedAt = req'.at
            /\ \A k \in DOMAIN old \ {"updatedAt"} :
                 \/ new[k] = old[k]
                 \/ k \in DOMAIN req'.body /\ new[k] = req'.body[k]
            /\ lead \in DOMAIN req'.body => new[lead] = req'.body[lead]

\* The store's answer to the command of a DELETE: 200 and exactly the
\* record of that id removed, or 404 and nothing removed.
DeleteIsAtomic(coll, after) ==
  IF req'.id \in StoredIds(coll)
    THEN resp'.status = 200 /\ after = coll \ {Stored(coll, req'.id)}
    ELSE resp'.status = 404 /\ after = coll

\* An id that was handed out and is stored no more is not stored again.
NeverStoredAgain(coll, after, seq) ==
  \A id \in (1 .. seq) \ StoredIds(coll) : id \notin StoredIds(after)

\* Every command the store executes for an overlapping PUT or DELETE acts
\* on the collection as it is at that moment, as the request would if it
\* were handled alone then.
ExecutedInSomeOrder ==
  /\ Handles("PUT /todos/:id") => UpdateIsAtomic("done", todos, todos')
  /\ Handles("PUT /posts/:id") => UpdateIsAtomic("title", posts, posts')
  /\ Handles("DELETE /todos/:id") => DeleteIsAtomic(todos, todos')
  /\ Handles("DELETE /posts/:id") => DeleteIsAtomic(posts, posts')
  /\ NeverStoredAgain(todos, todos', todoSeq)
  /\ NeverStoredAgain(posts, posts', postSeq)

\* Requests handled one after the other read the clock one after the
\* other: no update stores an updatedAt earlier than the one it finds.
StampsInOrder(coll, after) ==
  \A d \in coll :
    d.id \in StoredIds(after) => Stored(after, d.id).updatedAt >= d.updatedAt

\* C17 as stated: with overlapping PUT and DELETE requests on one id, the
\* stored records and the responses are those of the requests handled one
\* after the other in some order: each update merges into the record as
\* the store holds it, a deleted record is not stored again, an update that
\* the store executes after the delete is answered 404, and the stored
\* updatedAt is the one of the request handled last.
C17_Original ==
  [][ /\ ExecutedInSomeOrder
      /\ StampsInOrder(todos, todos')
      /\ StampsInOrder(posts, posts') ]_vars

\* C17 amended: the same, for every field but updatedAt: the stored
\* updatedAt is the clock value read when the request arrived, which can be
\* earlier than the updatedAt of an update the store executed before.
C17_AtomicWrites ==
  [][ ExecutedInSomeOrder ]_vars

\* C17 witness: the store executed the second of two overlapping PUTs on a
\* Todo (the answer has the title of one and the done of the other) while
\* a third request on the same id still waits.
C17_Witness ==
  /\ req.route = "PUT /todos/:id"
  /\ resp.status = 200
  /\ resp.body.title = "b"
  /\ resp.body.done = TRUE
  /\ \E r \in BagToSet(inflight) : r.id = req.id

\* C18: in the snapshot whose PUT /todos/:id passes only done to the store
\* (src/unnamed/part_000, lines 1-276), POST /todos with a missing or empty
\* title is answered 400 and stores nothing, a created Todo has the title
\* sent, no request changes the title of a stored Todo, and so every stored
\* Todo has a non-empty title.
C18_TitleSetOnceNonEmpty ==
  [][ snapshot = "api"
        => /\ \A d \in todos' : d.title # ""
           /\ \A d \in todos :
                d.id \in StoredIds(todos') => Stored(todos', d.id).title = d.title
           /\ (Handles("POST /todos") /\ TitleMissingOrEmpty(req'.body))
                => (resp'.status = 400 /\ todos' = todos)
           /\ (Handles("POST /todos") /\ resp'.status = 201)
                => /\ resp'.body.title = req'.body.title
                   /\ todos' = todos \cup {resp'.body}
           /\ ~Handles("POST /todos") => StoredIds(todos') \subseteq StoredIds(todos) ]_vars

\* C18 witness: in that snapshot a PUT /todos/:id whose body carried an
\* empty title and done was answered 200 with the title the Todo was
\* created with.
C18_Witness ==
  /\ snapshot = "api"
  /\ req.route = "PUT /todos/:id"
  /\ req.body = [title |-> "", done |-> TRUE]
  /\ resp.status = 200
  /\ resp.body.title = "a"
  /\ resp.body.done = TRUE

====
